---- MODULE Spec2Model ----
(***************************************************************************)
(* Model of the Video Resolution Engine of chumbavision:                   *)
(* src/src/services/videoScraper.ts (class VideoScraper).                  *)
(*                                                                         *)
(* One resolution (scrapeVideo) is a sequence of awaits on the browser;    *)
(* every await is one action whose outcome (value or exception) the        *)
(* browser chooses.  The page emits network responses while it is open,    *)
(* and the two timers of extractVideoUrlFromRequests fire as actions.      *)
(* URLs are strings and the code's includes()/RegExp tests are computed    *)
(* on their characters.                                                    *)
(***************************************************************************)
EXTENDS Integers, Sequences, FiniteSets, TLC

(***************************************************************************)
(* Bounds of the model.                                                    *)
(***************************************************************************)
MaxCalls == 2
MaxResponses == 2
MaxChunks == 2
MaxRequests == 2
MaxHandlerResponses == 1

\* connections a scraper opens before the model stops calling init()
MaxConnections == 2

\* responses the page emits while the pipeline awaits the observer
MaxObserverResponses == 2

\* videos the feed endpoint returns at most
MaxVideos == 3

\* loadVideos calls of one VideoFeed
MaxLoads == 2

(***************************************************************************)
(* Program constants.                                                      *)
(***************************************************************************)
MaxDownloadBytes == 50 * 1024 * 1024
NumSelectors == 5
NumGotoAttempts == 3

(***************************************************************************)
(* String helpers: String.prototype.includes and the character class \s.   *)
(***************************************************************************)
Includes(s, pat) ==
    \E i \in 1..(Len(s) - Len(pat) + 1) : SubSeq(s, i, i + Len(pat) - 1) = pat

StartsWith(s, pre) ==
    /\ Len(pre) <= Len(s)
    /\ SubSeq(s, 1, Len(pre)) = pre

Whitespace == {" ", "\t", "\n"}

NoWhitespaceFrom(s, from) ==
    \A i \in from..Len(s) : SubSeq(s, i, i) \notin Whitespace

\* /^https?:\/\/(www\.)?(d1|d2)\/[^\s]*$/ : the shape of both platform regexes
MatchesPlatformRegex(url, domains) ==
    \E scheme \in {"http://", "https://"}, www \in {"", "www."}, dom \in domains :
        LET prefix == scheme \o www \o dom \o "/"
        IN  /\ StartsWith(url, prefix)
            /\ NoWhitespaceFrom(url, Len(prefix) + 1)

TiktokDomains == {"tiktok.com", "vm.tiktok.com"}
InstagramDomains == {"instagram.com", "instagr.am"}

(***************************************************************************)
(* isIgnoredVideo: the sentinel URL patterns.                              *)
(***************************************************************************)
ignoredPatterns ==
    {"playback1.mp4", "preview.mp4", "placeholder.mp4",
     "loading.mp4", "thumbnail.mp4", "poster.mp4"}

isIgnoredVideo(u) == \E pattern \in ignoredPatterns : Includes(u, pattern)

(***************************************************************************)
(* Response classification of the 'response' listener.                     *)
(***************************************************************************)
isVideoContent(contentType) ==
    \/ Includes(contentType, "video/")
    \/ Includes(contentType, "application/octet-stream")

isVideoUrl(u) ==
    \/ Includes(u, ".mp4")
    \/ Includes(u, ".webm")
    \/ Includes(u, "/video/")
    \/ Includes(u, "tiktokcdn.com")
    \/ Includes(u, "muscdn.com")
    \/ (Includes(u, "tiktok") /\ Includes(u, "mp4"))

\* variant: the sentinel filter left out of the listener
IsCandidateUnfiltered(r) == isVideoContent(r.ct) \/ isVideoUrl(r.url)

\* the condition under which the listener keeps a response
IsCandidate(r) ==
    (isVideoContent(r.ct) \/ isVideoUrl(r.url)) /\ ~isIgnoredVideo(r.url)

\* the condition under which the listener resolves at once
IsConclusive(r) == Includes(r.url, ".mp4") \/ isVideoContent(r.ct)

\* validUrls.find(url => url.includes('.mp4')) || validUrls[0]
RECURSIVE FindMp4(_)
FindMp4(urls) ==
    IF urls = <<>> THEN ""
    ELSE IF Includes(Head(urls), ".mp4") THEN Head(urls)
    ELSE FindMp4(Tail(urls))

FilterValid(urls) == SelectSeq(urls, LAMBDA u : ~isIgnoredVideo(u))

\* variant: the candidate that arrived last is picked
BestUrlLast(validUrls) == validUrls[Len(validUrls)]

BestUrl(validUrls) ==
    IF FindMp4(validUrls) # "" THEN FindMp4(validUrls) ELSE Head(validUrls)

(***************************************************************************)
(* JavaScript values of the embedded-state payload: undefined, a string or *)
(* an array of strings; || and truthiness as JavaScript defines them.      *)
(***************************************************************************)
Undefined == "<undefined>"

JsUndef == [t |-> "undef", s |-> "", a |-> <<>>]
JsStr(x) == [t |-> "str", s |-> x, a |-> <<>>]
JsArr(xs) == [t |-> "arr", s |-> "", a |-> xs]

Truthy(v) == v.t = "arr" \/ (v.t = "str" /\ v.s # "")

JsOr(a, b) == IF Truthy(a) THEN a ELSE b

\* a string variable of the program that may hold undefined
TruthyStr(x) == x # "" /\ x # Undefined

\* videoData.video?.downloadAddr || playAddr || play_addr?.url_list?.[0]
\*   || bitrateInfo?.[0]?.PlayAddr?.UrlList?.[0]
PayloadVideoUrl(video) ==
    JsOr(JsOr(JsOr(video.downloadAddr, video.playAddr), video.urlList0),
         video.bitrate0)

\* Array.isArray(videoUrl) ? videoUrl[0] : videoUrl
FirstIfArray(v) ==
    IF v.t = "arr"
    THEN (IF Len(v.a) > 0 THEN v.a[1] ELSE Undefined)
    ELSE v.s

\* one script-tag payload: the metadata it yields, or "null" to fall through
PayloadResult(p) ==
    IF p.kind = "data" /\ Truthy(PayloadVideoUrl(p.video))
    THEN [found |-> TRUE, videoUrl |-> FirstIfArray(PayloadVideoUrl(p.video))]
    ELSE [found |-> FALSE, videoUrl |-> ""]

\* extractMetadataFromScriptTags: __NEXT_DATA__ first, then SIGI_STATE
ScriptTagsResult(doc) ==
    IF doc.evalThrows THEN [found |-> FALSE, videoUrl |-> ""]
    ELSE IF PayloadResult(doc.next).found THEN PayloadResult(doc.next)
    ELSE PayloadResult(doc.sigi)

(***************************************************************************)
(* The DOM read of the TikTok probe (page.evaluate, lines 197-239).        *)
(***************************************************************************)
IsCdnSource(src) ==
    \/ Includes(src, "v16-webapp")
    \/ Includes(src, "v19-webapp")
    \/ Includes(src, "tiktokcdn.com")
    \/ Includes(src, ".mp4")

RECURSIVE FirstCdnSource(_)
FirstCdnSource(sources) ==
    IF sources = <<>> THEN ""
    ELSE IF Head(sources) # "" /\ IsCdnSource(Head(sources)) THEN Head(sources)
    ELSE FirstCdnSource(Tail(sources))

DomVideoUrl(dom) ==
    IF ~dom.hasVideo THEN ""
    ELSE LET bySource == FirstCdnSource(dom.sources)
             byFirst  == IF bySource = "" /\ Len(dom.sources) > 0
                         THEN dom.sources[1] ELSE bySource
         IN  IF byFirst # "" THEN byFirst
             ELSE IF dom.currentSrc # "" THEN dom.currentSrc
             ELSE dom.src

\* Instagram: video?.src || ''
InstagramDomVideoUrl(dom) == IF dom.hasVideo THEN dom.src ELSE ""

(***************************************************************************)
(* parseInt of a header value: the leading decimal digits, or NaN.         *)
(***************************************************************************)
Digits == <<"0", "1", "2", "3", "4", "5", "6", "7", "8", "9">>

IsDigit(c) == \E d \in 1..10 : Digits[d] = c

DigitVal(c) == (CHOOSE d \in 1..10 : Digits[d] = c) - 1

RECURSIVE ParseDigits(_, _)
ParseDigits(s, acc) ==
    IF s = "" \/ ~IsDigit(SubSeq(s, 1, 1)) THEN acc
    ELSE ParseDigits(Tail(s), acc * 10 + DigitVal(SubSeq(s, 1, 1)))

parseInt(s) ==
    IF s = "" \/ ~IsDigit(SubSeq(s, 1, 1))
    THEN [nan |-> TRUE, n |-> 0]
    ELSE [nan |-> FALSE, n |-> ParseDigits(s, 0)]

\* contentLength && parseInt(contentLength) > 50 * 1024 * 1024
\* (a comparison with NaN is false)
DeclaredTooLarge(h) ==
    /\ h.present
    /\ h.value # ""
    /\ ~parseInt(h.value).nan
    /\ parseInt(h.value).n > MaxDownloadBytes

RECURSIVE SumLen(_)
SumLen(chunks) ==
    IF chunks = <<>> THEN 0 ELSE Head(chunks).len + SumLen(Tail(chunks))

(***************************************************************************)
(* Inputs: the URLs handed to scrapeVideo and what the browser can show.   *)
(***************************************************************************)
InputUrls ==
    {"https://www.tiktok.com/@u/video/1",
     "https://instagram.com/p/1",
     "https://youtube.com/w"}

\* the URLs the classifier is exercised on
ClassifierUrls ==
    InputUrls \cup
    {"http://vm.tiktok.com/x",
     "https://www.instagr.am/r",
     "https://tiktok.com",
     "https://tiktok.com/a b",
     "see https://instagram.com/p/1",
     "https://tiktok.com.evil.test/x"}

MediaA == "https://cdn.test/a.mp4"
MediaB == "https://cdn.test/video/b"
SentinelA == "https://cdn.test/playback1.mp4"
SentinelB == "https://cdn.test/poster.mp4?s=1"

\* network responses the page can emit: url and content-type header
Responses ==
    {[url |-> MediaA, ct |-> "video/mp4"],
     [url |-> MediaB, ct |-> "text/html"],
     [url |-> "https://api.test/item", ct |-> "application/octet-stream"],
     [url |-> SentinelA, ct |-> "video/mp4"]}

NoVideo ==
    [downloadAddr |-> JsUndef, playAddr |-> JsUndef,
     urlList0 |-> JsUndef, bitrate0 |-> JsUndef]

PayloadVideos ==
    {NoVideo,
     [NoVideo EXCEPT !.downloadAddr = JsStr(MediaA)],
     [NoVideo EXCEPT !.downloadAddr = JsStr(""), !.playAddr = JsStr(MediaB)],
     [NoVideo EXCEPT !.downloadAddr = JsStr(SentinelA), !.playAddr = JsStr(MediaA)],
     [NoVideo EXCEPT !.playAddr = JsArr(<<MediaA>>)],
     [NoVideo EXCEPT !.playAddr = JsArr(<<>>)],
     [NoVideo EXCEPT !.urlList0 = JsArr(<<>>), !.bitrate0 = JsStr(MediaB)]}

\* a script tag: no marker, marker without a match, unparsable JSON,
\* no item in the JSON, or an item with its video descriptor
Payloads ==
    {[kind |-> k, video |-> NoVideo] : k \in {"absent", "nomatch", "badjson", "nodata"}}
    \cup {[kind |-> "data", video |-> v] : v \in PayloadVideos}

Documents == [evalThrows : {FALSE}, next : Payloads, sigi : Payloads]
    \cup {[evalThrows |-> TRUE,
           next |-> [kind |-> "absent", video |-> NoVideo],
           sigi |-> [kind |-> "absent", video |-> NoVideo]]}

NoDom == [hasVideo |-> FALSE, sources |-> <<>>, currentSrc |-> "", src |-> ""]

VideoDoms ==
    {[NoDom EXCEPT !.hasVideo = TRUE],
     [NoDom EXCEPT !.hasVideo = TRUE,
                   !.sources = <<"blob:1", "https://v16-webapp.test/v">>,
                   !.src = MediaA],
     [NoDom EXCEPT !.hasVideo = TRUE, !.sources = <<"", "blob:1">>, !.src = MediaA],
     [NoDom EXCEPT !.hasVideo = TRUE, !.currentSrc = MediaA, !.src = MediaB],
     [NoDom EXCEPT !.hasVideo = TRUE, !.src = SentinelB]}

\* content-length header of the download response
Headers ==
    {[present |-> FALSE, value |-> ""],
     [present |-> TRUE, value |-> "52428800"],
     [present |-> TRUE, value |-> "52428801"],
     [present |-> TRUE, value |-> "n/a"]}

ChunkSizes == {1, MaxDownloadBytes}

(***************************************************************************)
(* State.                                                                  *)
(***************************************************************************)
VARIABLES
    token,       \* BROWSERLESS_TOKEN is set
    browser,     \* this.browser: "null" or "connected"
    calls,       \* scrapeVideo calls made so far
    classLog,    \* per input URL, the classifications it was given
    pc,          \* position of the resolution in flight
    url,         \* its input URL
    platform,    \* "tiktok", "instagram" or "none"
    ctx,         \* its browsing context: "none", "open" or "closed"
    page,        \* its page: "none", "open" or "closed"
    ctxCloses,   \* number of context.close() calls that completed
    navAttempt,  \* page.goto attempt in progress (1..3)
    navStarted,  \* the first page.goto was issued
    navLog,      \* the page.goto calls issued: wait condition and outcome
    listening,   \* page.on('response') is registered
    emitted,     \* responses the page emitted, with the moment of emission
    foundUrls,   \* foundUrls of extractVideoUrlFromRequests
    obs,         \* its promise: state and value
    deadline,    \* its 15000 ms timer: "idle", "armed", "cleared", "fired"
    settle,      \* its 3000 ms callback: "idle", "armed", "running", "done"
    obsFor,      \* call site of the observer: "novideo", "dom", "ig"
    scriptMetadata, \* result of extractMetadataFromScriptTags
    selIdx,      \* selector being waited for (1..5), 0 outside the loop
    videoFound,
    metadataUrl, \* metadata.videoUrl
    trail,       \* the stages the resolution has entered, in order
    dl,          \* in-session download: header, chunks read, outcome
    retval,      \* value of the return statement reached in the try block
    thrown,      \* error travelling through catch/finally, "" if none
    outcome,     \* "none", "ok" or "error": how scrapeVideo settled
    error,       \* the error it rejected with
    result,      \* the VideoMetadata it resolved with
    fault,       \* first browser operation that threw, "" if none
    initError,   \* the error a caller of init() last received, "" if none
    connectAttempted, \* chromium.connectOverCDP was called
    connections, \* engine connections this scraper opened and has not closed
    hpc,         \* position of the POST handler
    reqUrl,      \* the url of its request body
    httpStatus,  \* status of its Response, 0 before it returns one
    upload,      \* what uploadVideoFromUrl did
    cancelled,   \* the caller gave up on the request
    rq,          \* concurrent requests: position, context and page of each
    contexts,    \* the browsing contexts created for them, in creation order
    videosLength,        \* VideoFeed: videos().length
    currentIndex,        \* VideoFeed: currentIndex()
    loading,             \* VideoFeed: loading()
    feedError,           \* VideoFeed: error() is not null
    loadsInFlight,       \* VideoFeed: loadVideos calls that have not settled
    loadCalls,           \* VideoFeed: loadVideos calls made so far
    isTransitioning,     \* VideoFeed: isTransitioning()
    transitionDirection, \* VideoFeed: transitionDirection()
    feedTimer,           \* VideoFeed: the pending setTimeout of a transition
    sinceScroll,         \* VideoFeed: Date.now() - lastScrollTime, "recent" if < 300
    indexAtStart         \* VideoFeed: currentIndex when the transition started

handlerVars == <<hpc, reqUrl, httpStatus, upload, cancelled>>
concVars == <<rq, contexts>>
feedVars == <<videosLength, currentIndex, loading, feedError, loadsInFlight,
              loadCalls, isTransitioning, transitionDirection, feedTimer,
              sinceScroll, indexAtStart>>

\* everything outside the resolution in flight
classVars == <<token, browser, calls, classLog, initError, connectAttempted,
               connections, handlerVars, concVars, feedVars>>
sessVars == <<ctx, page, ctxCloses, navAttempt, navStarted, navLog>>
obsVars == <<listening, emitted, foundUrls, obs, deadline, settle, obsFor>>
probeVars == <<scriptMetadata, selIdx, videoFound, metadataUrl, trail>>
endVars == <<retval, thrown, outcome, error, result, fault>>

vars == <<token, browser, calls, classLog, pc, url, platform,
          ctx, page, ctxCloses, navAttempt, navStarted, navLog,
          listening, emitted, foundUrls, obs, deadline, settle, obsFor,
          scriptMetadata, selIdx, videoFound, metadataUrl, trail,
          dl, retval, thrown, outcome, error, result, fault,
          initError, connectAttempted, hpc, reqUrl, httpStatus, upload,
          cancelled, rq, contexts, connections,
          videosLength, currentIndex, loading, feedError, loadsInFlight,
          loadCalls, isTransitioning, transitionDirection, feedTimer,
          sinceScroll, indexAtStart>>

NoMetadata == [found |-> FALSE, videoUrl |-> ""]
NoBuffer == [size |-> 0, parts |-> <<>>]
NoResult == [videoUrl |-> "", platform |-> "none", hasBuffer |-> FALSE, buffer |-> NoBuffer]
NoReturn == [set |-> FALSE, videoUrl |-> "", hasBuffer |-> FALSE, buffer |-> NoBuffer]
NoDownload ==
    [status |-> "none", url |-> "", header |-> [present |-> FALSE, value |-> ""],
     chunks |-> <<>>, totalSize |-> 0, stream |-> <<>>, streamDone |-> FALSE]
PendingObs == [state |-> "idle", value |-> ""]
NoUpload == [called |-> FALSE, fetched |-> FALSE, stored |-> "none"]
NoRequest == [pc |-> "idle", browser |-> "null", ctx |-> 0, page |-> 0]

\* the concurrent POST requests
Reqs == 1..MaxRequests

\* the state of a resolution that has not started
Fresh ==
    /\ url = "" /\ platform = "none"
    /\ ctx = "none" /\ page = "none" /\ ctxCloses = 0
    /\ navAttempt = 0 /\ navStarted = FALSE /\ navLog = <<>>
    /\ listening = FALSE /\ emitted = <<>> /\ foundUrls = <<>>
    /\ obs = PendingObs /\ deadline = "idle" /\ settle = "idle" /\ obsFor = ""
    /\ scriptMetadata = NoMetadata
    /\ selIdx = 0 /\ videoFound = FALSE /\ metadataUrl = "" /\ trail = <<>>
    /\ dl = NoDownload /\ retval = NoReturn /\ thrown = ""
    /\ outcome = "none" /\ error = "" /\ result = NoResult /\ fault = ""

Init ==
    /\ token \in BOOLEAN
    /\ browser = "null"
    /\ calls = 0
    /\ classLog = [u \in ClassifierUrls |-> {}]
    /\ pc = "idle"
    /\ Fresh
    /\ initError = "" /\ connectAttempted = FALSE /\ connections = 0
    /\ hpc = "idle" /\ reqUrl = "" /\ httpStatus = 0
    /\ upload = NoUpload /\ cancelled = FALSE
    /\ rq = [r \in Reqs |-> NoRequest]
    /\ contexts = <<>>
    /\ videosLength = 0 /\ currentIndex = 0
    /\ loading = TRUE /\ feedError = FALSE
    /\ loadsInFlight = 0 /\ loadCalls = 0
    /\ isTransitioning = FALSE /\ transitionDirection = "down"
    /\ feedTimer = "none" /\ sinceScroll = "old" /\ indexAtStart = 0

(***************************************************************************)
(* init() and close() of the scraper, called between resolutions.          *)
(***************************************************************************)
Quiescent == pc \in {"idle", "done"}

\* variant: the token check left out, the connection attempted without one
TokenMissingIgnored == FALSE

\* !this.token
TokenMissing == ~token

\* what init() can throw; "" when it returns
InitErrors == {"", "TokenNotSet", "ConnectFailed"}

\* init(): throws when the token is unset, else connects (which may throw);
\* err is the error its caller receives
init(err) ==
    IF TokenMissing
    THEN /\ err = "TokenNotSet"
         /\ UNCHANGED <<browser, connectAttempted, connections>>
    ELSE /\ connectAttempted' = TRUE
         /\ \/ /\ err = ""
               /\ browser' = "connected"
               /\ connections' = connections + 1
            \/ /\ err = "ConnectFailed"
               /\ UNCHANGED <<browser, connections>>

\* close(): closes the connection this.browser holds, if there is one
close ==
    /\ browser' = "null"
    /\ connections' = IF browser = "connected" THEN connections - 1
                      ELSE connections

\* the resolution in flight, untouched by init() and close()
resolutionVars ==
    <<pc, url, platform, dl, sessVars, obsVars, probeVars, endVars>>

ScraperInit ==
    /\ Quiescent
    /\ browser = "null"
    /\ \E err \in InitErrors : init(err)
    /\ UNCHANGED <<token, calls, classLog, initError, handlerVars, concVars, feedVars,
                   resolutionVars>>

ScraperClose ==
    /\ Quiescent
    /\ browser = "connected"
    /\ close
    /\ UNCHANGED <<token, calls, classLog, initError, connectAttempted,
                   handlerVars, concVars, feedVars, resolutionVars>>

(***************************************************************************)
(* scrapeVideo: classification and dispatch.                               *)
(***************************************************************************)
\* variant: the regex hoisted out of the call with a g flag, so that test()
\* resumes from the lastIndex the previous match on that string left
tiktokRegexTestGlobal(u) ==
    MatchesPlatformRegex(u, TiktokDomains) /\ classLog[u] = {}

tiktokRegexTest(u) == MatchesPlatformRegex(u, TiktokDomains)

\* variant: the engine's Instagram pattern without the short domain
instagramRegexTestLongOnly(u) ==
    MatchesPlatformRegex(u, InstagramDomains \ {"instagr.am"})

instagramRegexTest(u) == MatchesPlatformRegex(u, InstagramDomains)

Classify(u) ==
    IF tiktokRegexTest(u) THEN "tiktok"
    ELSE IF instagramRegexTest(u) THEN "instagram"
    ELSE "unsupported"

\* the resolution-local state of a new call
ResetResolution ==
    /\ ctx' = "none" /\ page' = "none" /\ ctxCloses' = 0
    /\ navAttempt' = 0 /\ navStarted' = FALSE /\ navLog' = <<>>
    /\ listening' = FALSE /\ emitted' = <<>> /\ foundUrls' = <<>>
    /\ obs' = PendingObs /\ deadline' = "idle" /\ settle' = "idle" /\ obsFor' = ""
    /\ scriptMetadata' = NoMetadata
    /\ selIdx' = 0 /\ videoFound' = FALSE /\ metadataUrl' = "" /\ trail' = <<>>
    /\ dl' = NoDownload /\ retval' = NoReturn /\ thrown' = ""
    /\ result' = NoResult /\ fault' = ""

\* variant: the connection check left out of both scrapers
BrowserMissingIgnored == FALSE

\* !this.browser
BrowserMissing == browser = "null"

ScrapeVideo(u) ==
    /\ Quiescent
    /\ calls < MaxCalls
    /\ calls' = calls + 1
    /\ url' = u
    /\ classLog' = [classLog EXCEPT ![u] = @ \cup {Classify(u)}]
    /\ ResetResolution
    /\ IF Classify(u) = "unsupported"
       THEN /\ platform' = "none"
            /\ pc' = "done" /\ outcome' = "error" /\ error' = "UnsupportedPlatform"
       ELSE /\ platform' = Classify(u)
            /\ IF BrowserMissing
               THEN pc' = "done" /\ outcome' = "error"
                    /\ error' = "BrowserNotInitialized"
               ELSE pc' = "newContext" /\ outcome' = "none" /\ error' = ""
    /\ UNCHANGED <<token, browser, initError, connectAttempted, connections>>

(***************************************************************************)
(* Control transfers of the try / catch / finally of both scrapers.        *)
(***************************************************************************)
\* an exception outside the try block rejects the call at once
Reject(err, op) ==
    /\ pc' = "done"
    /\ outcome' = "error"
    /\ error' = err
    /\ fault' = IF fault = "" THEN op ELSE fault
    /\ UNCHANGED <<retval, thrown, result>>

\* an exception inside the try block: catch rethrows it, finally runs
Throw(err, op) ==
    /\ pc' = "closePage"
    /\ thrown' = err
    /\ fault' = IF fault = "" THEN op ELSE fault
    /\ UNCHANGED <<retval, outcome, error, result>>

\* a return statement inside the try block: finally runs
Return(videoUrl, hasBuffer, buffer) ==
    /\ pc' = "closePage"
    /\ retval' = [set |-> TRUE, videoUrl |-> videoUrl,
                  hasBuffer |-> hasBuffer, buffer |-> buffer]
    /\ UNCHANGED <<thrown, outcome, error, result, fault>>

(***************************************************************************)
(* Session set-up, before the try block.                                   *)
(***************************************************************************)
NewContext ==
    /\ pc = "newContext"
    /\ \/ /\ ctx' = "open"
          /\ pc' = "newPage"
          /\ UNCHANGED endVars
       \/ /\ Reject("NewContextFailed", "newContext")
          /\ UNCHANGED ctx
    /\ UNCHANGED <<classVars, url, platform, page, ctxCloses, navAttempt,
                   navStarted, navLog, obsVars, probeVars, dl>>

NewPage ==
    /\ pc = "newPage"
    /\ \/ /\ page' = "open"
          /\ pc' = IF platform = "tiktok" THEN "initScript" ELSE "goto"
          /\ navAttempt' = IF platform = "tiktok" THEN 0 ELSE 1
          /\ UNCHANGED endVars
       \/ /\ Reject("NewPageFailed", "newPage")
          /\ UNCHANGED <<page, navAttempt>>
    /\ UNCHANGED <<classVars, url, platform, ctx, ctxCloses, navStarted, navLog,
                   obsVars, probeVars, dl>>

AddInitScript ==
    /\ pc = "initScript"
    /\ \/ /\ pc' = "goto"
          /\ navAttempt' = 1
          /\ UNCHANGED endVars
       \/ /\ Reject("InitScriptFailed", "initScript")
          /\ UNCHANGED navAttempt
    /\ UNCHANGED <<classVars, url, platform, ctx, page, ctxCloses, navStarted, navLog,
                   obsVars, probeVars, dl>>

(***************************************************************************)
(* Navigation: three page.goto attempts for TikTok, one for Instagram.     *)
(***************************************************************************)
GotoAttempts == IF platform = "tiktok" THEN NumGotoAttempts ELSE 1

\* the wait conditions of the TikTok cascade, in the order of the nested try
\* blocks
WaitConditions == <<"networkidle", "domcontentloaded", "load">>

\* variant: every retry made with the wait condition of the first attempt
WaitUntilSame(p, attempt) == WaitConditions[1]

\* the waitUntil option of the n-th page.goto of a platform
WaitUntil(p, attempt) ==
    IF p = "tiktok" THEN WaitConditions[attempt] ELSE WaitConditions[1]

\* the navigation log with the outcome of its last page.goto filled in
Settled(log, o) == [log EXCEPT ![Len(log)].outcome = o]

\* the resolution enters a stage
Enter(stage) == trail' = Append(trail, stage)

\* page.goto is issued
GotoStart ==
    /\ pc = "goto"
    /\ pc' = "navigating"
    /\ navStarted' = TRUE
    /\ navLog' = Append(navLog, [waitUntil |-> WaitUntil(platform, navAttempt),
                                 outcome |-> "pending"])
    /\ UNCHANGED <<classVars, url, platform, ctx, page, ctxCloses, navAttempt,
                   obsVars, probeVars, dl, endVars>>

\* page.goto settles
GotoEnd ==
    /\ pc = "navigating"
    /\ \/ /\ pc' = IF platform = "tiktok" THEN "settle" ELSE "igWait"
          /\ navLog' = Settled(navLog, "ok")
          /\ Enter("navigated")
          /\ UNCHANGED <<navAttempt, endVars>>
       \/ /\ navAttempt < GotoAttempts
          /\ navAttempt' = navAttempt + 1
          /\ navLog' = Settled(navLog, "failed")
          /\ pc' = "goto"
          /\ UNCHANGED <<trail, endVars>>
       \/ /\ navAttempt = GotoAttempts
          /\ navLog' = Settled(navLog, "failed")
          /\ Throw("NavigationFailed", "navigation")
          /\ UNCHANGED <<navAttempt, trail>>
    /\ UNCHANGED <<classVars, url, platform, ctx, page, ctxCloses, navStarted,
                   obsVars, scriptMetadata, selIdx, videoFound, metadataUrl, dl>>

\* mouse.move and the two waitForTimeout calls
SettleDelay ==
    /\ pc = "settle"
    /\ \/ pc' = "script" /\ Enter("settled") /\ UNCHANGED endVars
       \/ Throw("PageFailed", "settle") /\ UNCHANGED trail
    /\ UNCHANGED <<classVars, url, platform, sessVars, obsVars,
                   scriptMetadata, selIdx, videoFound, metadataUrl, dl>>

(***************************************************************************)
(* Strategy 1: embedded-state parse (TikTok).                              *)
(***************************************************************************)
ExtractScriptTags ==
    /\ pc = "script"
    /\ \E d \in Documents :
        /\ scriptMetadata' = ScriptTagsResult(d)
        /\ IF ScriptTagsResult(d).found
           THEN /\ pc' = "download"
                /\ dl' = [NoDownload EXCEPT !.url = ScriptTagsResult(d).videoUrl]
           ELSE /\ pc' = "selector"
                /\ dl' = dl
    /\ selIdx' = IF pc' = "selector" THEN 1 ELSE selIdx
    /\ Enter("embedded")
    /\ UNCHANGED <<classVars, url, platform, sessVars, obsVars,
                   videoFound, metadataUrl, endVars>>

(***************************************************************************)
(* Strategy 2: DOM probe.                                                  *)
(***************************************************************************)
\* variant: the loop steps over selectors
NextSelectorSkips(i) == i + i

\* for (const selector of videoSelectors): the selector after the i-th
NextSelector(i) == i + 1

\* one waitForSelector of the loop: it resolves, or times out and the loop
\* goes on; after the last miss the observer is the only strategy left
WaitForSelector ==
    /\ pc = "selector"
    /\ \/ /\ videoFound' = TRUE
          /\ pc' = "domEval"
          /\ selIdx' = 0
          /\ UNCHANGED obsFor
       \/ /\ selIdx < NumSelectors
          /\ selIdx' = NextSelector(selIdx)
          /\ UNCHANGED <<pc, videoFound, obsFor>>
       \/ /\ selIdx = NumSelectors
          /\ pc' = "observe"
          /\ obsFor' = "novideo"
          /\ selIdx' = 0
          /\ UNCHANGED videoFound
    /\ trail' = IF selIdx = 1 THEN Append(trail, "dom") ELSE trail
    /\ UNCHANGED <<classVars, url, platform, sessVars, listening, emitted,
                   foundUrls, obs, deadline, settle, scriptMetadata,
                   metadataUrl, dl, endVars>>

\* the DOMs page.evaluate can find: document.querySelector('video') is null
\* when only '.jsx-2303662735' matched or the element has gone
Doms == VideoDoms \cup {NoDom}

\* variant: the observer awaited whatever the DOM probe read
EvaluateDomAlwaysObserves ==
    /\ pc = "domEval"
    /\ \E d \in Doms : metadataUrl' = DomVideoUrl(d)
    /\ pc' = "observe"
    /\ obsFor' = "dom"
    /\ UNCHANGED <<classVars, url, platform, sessVars, listening, emitted,
                   foundUrls, obs, deadline, settle, scriptMetadata,
                   selIdx, videoFound, trail, dl, endVars>>

\* page.evaluate of the TikTok probe, and the branch on metadata.videoUrl
EvaluateDom ==
    /\ pc = "domEval"
    /\ \/ \E d \in Doms :
            /\ metadataUrl' = DomVideoUrl(d)
            /\ IF DomVideoUrl(d) = ""
               THEN pc' = "observe" /\ obsFor' = "dom" /\ dl' = dl
               ELSE pc' = "download" /\ obsFor' = obsFor
                    /\ dl' = [NoDownload EXCEPT !.url = DomVideoUrl(d)]
            /\ UNCHANGED endVars
       \/ /\ Throw("EvaluateFailed", "domEval")
          /\ UNCHANGED <<metadataUrl, obsFor, dl>>
    /\ UNCHANGED <<classVars, url, platform, sessVars, listening, emitted,
                   foundUrls, obs, deadline, settle, scriptMetadata,
                   selIdx, videoFound, trail>>

\* Instagram: waitForSelector('video') resolves or throws its timeout
InstagramWaitForVideo ==
    /\ pc = "igWait"
    /\ \/ pc' = "igEval" /\ videoFound' = TRUE /\ UNCHANGED endVars
       \/ Throw("SelectorTimeout", "") /\ UNCHANGED videoFound
    /\ Enter("dom")
    /\ UNCHANGED <<classVars, url, platform, sessVars, obsVars,
                   scriptMetadata, selIdx, metadataUrl, dl>>

\* Instagram: page.evaluate, then the observer or the return
InstagramEvaluate ==
    /\ pc = "igEval"
    /\ \/ \E d \in Doms :
            /\ metadataUrl' = InstagramDomVideoUrl(d)
            /\ IF InstagramDomVideoUrl(d) = ""
               THEN /\ pc' = "observe" /\ obsFor' = "ig"
                    /\ UNCHANGED endVars
               ELSE /\ obsFor' = obsFor
                    /\ Return(InstagramDomVideoUrl(d), FALSE, NoBuffer)
       \/ /\ Throw("EvaluateFailed", "domEval")
          /\ UNCHANGED <<metadataUrl, obsFor>>
    /\ UNCHANGED <<classVars, url, platform, sessVars, listening, emitted,
                   foundUrls, obs, deadline, settle, scriptMetadata,
                   selIdx, videoFound, trail, dl>>

(***************************************************************************)
(* Strategy 3: the Network Observer, extractVideoUrlFromRequests.          *)
(***************************************************************************)
\* the promise executor: arms both timers and registers the listener
StartObserver ==
    /\ pc = "observe"
    /\ pc' = "awaitObs"
    /\ listening' = TRUE
    /\ foundUrls' = <<>>
    /\ obs' = [state |-> "pending", value |-> ""]
    /\ deadline' = "armed"
    /\ settle' = "armed"
    /\ Enter("observer")
    /\ UNCHANGED <<classVars, url, platform, sessVars, emitted, obsFor,
                   scriptMetadata, selIdx, videoFound, metadataUrl, dl, endVars>>

\* resolve(u) of a promise: only the first settlement counts
Resolved(o, u) == IF o.state = "pending" THEN [state |-> "resolved", value |-> u] ELSE o

\* variant: the deadline timer fires without rejecting
RejectedIgnored(o) == o

Rejected(o) == IF o.state = "pending" THEN [state |-> "rejected", value |-> ""] ELSE o

Cleared(t) == IF t = "armed" THEN "cleared" ELSE t

EmissionMoment ==
    IF deadline = "fired" THEN "afterDeadline"
    ELSE IF listening THEN "listening"
    ELSE "preListen"

\* the page emits a response; the listener, if registered, classifies it
EmitResponse(r) ==
    /\ page = "open"
    /\ navStarted
    /\ Len(emitted) < MaxResponses
    /\ emitted' = Append(emitted, [url |-> r.url, ct |-> r.ct, at |-> EmissionMoment])
    /\ IF listening /\ IsCandidate(r)
       THEN /\ foundUrls' = Append(foundUrls, r.url)
            /\ IF IsConclusive(r)
               THEN deadline' = Cleared(deadline) /\ obs' = Resolved(obs, r.url)
               ELSE UNCHANGED <<deadline, obs>>
       ELSE UNCHANGED <<foundUrls, deadline, obs>>
    /\ UNCHANGED <<classVars, pc, url, platform, sessVars, listening, settle,
                   obsFor, probeVars, dl, endVars>>

\* the 15000 ms timer; the 3000 ms timer was armed with it and fires first
DeadlineTimer ==
    /\ deadline = "armed"
    /\ settle # "armed"
    /\ deadline' = "fired"
    /\ obs' = Rejected(obs)
    /\ UNCHANGED <<classVars, pc, url, platform, sessVars, listening, emitted,
                   foundUrls, settle, obsFor, probeVars, dl, endVars>>

\* the 3000 ms callback up to its interaction: scroll, wait, clicks; an
\* exception of the scroll or of page.$$ ends the callback
SettleInteract ==
    /\ settle = "armed"
    /\ \/ page = "open" /\ settle' = "running"
       \/ settle' = "done"
    /\ UNCHANGED <<classVars, pc, url, platform, sessVars, listening, emitted,
                   foundUrls, obs, deadline, obsFor, probeVars, dl, endVars>>

\* the rest of the callback: the tie-break over foundUrls
SettleTieBreak ==
    /\ settle = "running"
    /\ settle' = "done"
    /\ IF Len(foundUrls) > 0 /\ FilterValid(foundUrls) # <<>>
       THEN /\ deadline' = Cleared(deadline)
            /\ obs' = Resolved(obs, BestUrl(FilterValid(foundUrls)))
       ELSE UNCHANGED <<deadline, obs>>
    /\ UNCHANGED <<classVars, pc, url, platform, sessVars, listening, emitted,
                   foundUrls, obsFor, probeVars, dl, endVars>>

\* the await on the observer's promise resumes
AwaitObserver ==
    /\ pc = "awaitObs"
    /\ obs.state # "pending"
    /\ IF obs.state = "resolved"
       THEN /\ metadataUrl' = obs.value
            /\ IF obsFor = "dom" /\ TruthyStr(obs.value)
               THEN /\ pc' = "download"
                    /\ dl' = [NoDownload EXCEPT !.url = obs.value]
                    /\ UNCHANGED endVars
               ELSE /\ Return(obs.value, FALSE, NoBuffer)
                    /\ dl' = dl
       ELSE /\ Throw(IF obsFor = "novideo" THEN "NoVideoFound" ELSE "ObserverTimeout", "")
            /\ UNCHANGED <<metadataUrl, dl>>
    /\ UNCHANGED <<classVars, url, platform, sessVars, obsVars,
                   scriptMetadata, selIdx, videoFound, trail>>

(***************************************************************************)
(* In-Session Downloader, downloadVideoFromBrowser.                        *)
(***************************************************************************)
\* the content-length header holds a number
Declared(h) == h.present /\ ~parseInt(h.value).nan

\* variant: the array allocated with the declared length when there is one
AssembleBufferDeclared(chunks, totalSize) ==
    [size |-> IF Declared(dl.header) THEN parseInt(dl.header.value).n
              ELSE totalSize,
     parts |-> chunks]

\* variant: the write position never advanced
NextPositionStuck(position, chunk) == position

\* position += chunk.length
NextPosition(position, chunk) == position + chunk.len

\* for (const chunk of chunks) fullArray.set(chunk, position): the array as
\* the set of the segments written, each at its offset
RECURSIVE FillArray(_, _)
FillArray(chunks, position) ==
    IF chunks = <<>> THEN {}
    ELSE {[at |-> position, id |-> Head(chunks).id, len |-> Head(chunks).len]}
         \cup FillArray(Tail(chunks), NextPosition(position, Head(chunks)))

\* what the array holds, read from an offset on
RECURSIVE ArrayContents(_, _)
ArrayContents(array, from) ==
    IF \A seg \in array : seg.at # from THEN <<>>
    ELSE LET seg == CHOOSE x \in array : x.at = from
         IN  <<[id |-> seg.id, len |-> seg.len]>>
             \o ArrayContents(array \ {seg}, from + seg.len)

\* new Uint8Array(totalSize) filled with the chunks, then read out by the
\* caller from its first byte
AssembleBuffer(chunks, totalSize) ==
    [size |-> totalSize, parts |-> ArrayContents(FillArray(chunks, 0), 0)]

\* variant: the url taken from a field the page result does not have
DownloadResultUrlLost(videoUrl) == Undefined

\* the url field of the download result, on success and on failure
DownloadResultUrl(videoUrl) == videoUrl

\* variant: the bytes read so far handed back whenever some were read
DownloadReturnsPartial(hasBuffer, buffer) ==
    Return(DownloadResultUrl(dl.url), dl'.chunks # <<>>,
           AssembleBuffer(dl'.chunks, dl'.totalSize))

\* the caller copies downloadResult.url, and the buffer if there is one,
\* into the metadata it returns
DownloadReturns(hasBuffer, buffer) ==
    Return(DownloadResultUrl(dl.url), hasBuffer, buffer)

\* variant: the outer catch missing, the download error reaches the caller
DownloadFailureThrows == Throw("VideoDownloadError", "")

\* the download failed: the error is caught and the bare URL is the result
DownloadFailure == DownloadReturns(FALSE, NoBuffer)

\* fetch(url) inside the page, the status check, the content-length check
\* and getReader()
DownloadFetch ==
    /\ pc = "download"
    /\ \/ \E st \in {"evalError", "fetchError", "httpError", "noReader"} :
            /\ dl' = [dl EXCEPT !.status = st]
            /\ DownloadFailure
       \/ \E h \in Headers :
            IF DeclaredTooLarge(h)
            THEN /\ dl' = [dl EXCEPT !.status = "declaredTooLarge", !.header = h]
                 /\ DownloadFailure
            ELSE /\ dl' = [dl EXCEPT !.status = "reading", !.header = h]
                 /\ pc' = "dlRead"
                 /\ UNCHANGED endVars
    /\ Enter("download")
    /\ UNCHANGED <<classVars, url, platform, sessVars, obsVars,
                   scriptMetadata, selIdx, videoFound, metadataUrl>>

\* variant: the running-total check left out
OverLimitUnchecked(totalSize) == FALSE

\* the running-total check after a chunk was pushed
OverLimit(totalSize) == totalSize > MaxDownloadBytes

\* one reader.read(): a chunk, the end of the stream, or a stream error;
\* the result of a complete read can still be lost on its way out of the page
DownloadRead ==
    /\ pc = "dlRead"
    /\ \/ \E n \in ChunkSizes :
            /\ Len(dl.stream) < MaxChunks
            /\ LET c == [id |-> Len(dl.stream) + 1, len |-> n]
                   read == [dl EXCEPT !.stream = Append(@, c),
                                      !.chunks = Append(@, c),
                                      !.totalSize = @ + n]
               IN  IF OverLimit(read.totalSize)
                   THEN /\ dl' = [read EXCEPT !.status = "runningTooLarge"]
                        /\ DownloadFailure
                   ELSE /\ dl' = read
                        /\ UNCHANGED <<pc, endVars>>
       \/ /\ dl' = [dl EXCEPT !.status = "complete", !.streamDone = TRUE]
          /\ DownloadReturns(TRUE, AssembleBuffer(dl.chunks, dl.totalSize))
       \/ /\ dl' = [dl EXCEPT !.status = "evalError", !.streamDone = TRUE]
          /\ DownloadFailure
       \/ /\ dl' = [dl EXCEPT !.status = "streamError"]
          /\ DownloadFailure
    /\ UNCHANGED <<classVars, url, platform, sessVars, obsVars, probeVars>>

(***************************************************************************)
(* The finally block: page.close() then context.close().                   *)
(***************************************************************************)
ClosePage ==
    /\ pc = "closePage"
    /\ \/ /\ page' = "closed"
          /\ pc' = "closeCtx"
          /\ UNCHANGED endVars
       \/ /\ Reject("PageCloseFailed", "closePage")
          /\ UNCHANGED page
    /\ UNCHANGED <<classVars, url, platform, ctx, ctxCloses, navAttempt,
                   navStarted, navLog, obsVars, probeVars, dl>>

\* after context.close() the call settles with the pending return or throw
CloseContext ==
    /\ pc = "closeCtx"
    /\ \/ /\ ctx' = "closed"
          /\ ctxCloses' = ctxCloses + 1
          /\ pc' = "done"
          /\ IF thrown # ""
             THEN outcome' = "error" /\ error' = thrown /\ result' = result
             ELSE outcome' = "ok" /\ error' = error
                  /\ result' = [videoUrl |-> retval.videoUrl, platform |-> platform,
                                hasBuffer |-> retval.hasBuffer, buffer |-> retval.buffer]
          /\ UNCHANGED <<retval, thrown, fault>>
       \/ /\ Reject("ContextCloseFailed", "closeCtx")
          /\ UNCHANGED <<ctx, ctxCloses>>
    /\ UNCHANGED <<classVars, url, platform, page, navAttempt, navStarted, navLog,
                   obsVars, probeVars, dl>>

(***************************************************************************)
(* Specification.                                                          *)
(***************************************************************************)
\* the one resolution a scraper serves (submit.ts: one scraper per request)
Resolve ==
    /\ calls = 0
    /\ \E u \in InputUrls : ScrapeVideo(u)
    /\ UNCHANGED <<handlerVars, concVars, feedVars>>

Next ==
    \/ ScraperInit
    \/ ScraperClose
    \/ Resolve
    \/ NewContext
    \/ NewPage
    \/ AddInitScript
    \/ GotoStart
    \/ GotoEnd
    \/ SettleDelay
    \/ ExtractScriptTags
    \/ WaitForSelector
    \/ EvaluateDom
    \/ InstagramWaitForVideo
    \/ InstagramEvaluate
    \/ StartObserver
    \/ \E r \in Responses : EmitResponse(r)
    \/ DeadlineTimer
    \/ SettleInteract
    \/ SettleTieBreak
    \/ AwaitObserver
    \/ DownloadFetch
    \/ DownloadRead
    \/ ClosePage
    \/ CloseContext

Spec == Init /\ [][Next]_vars

\* The steps whose completion the runtime guarantees: every Playwright call
\* of the pipeline settles within its timeout, and armed timers fire.  The
\* fetch and the reads of the in-session download have no timeout, and the
\* page owes nobody a response.
PipelineStep ==
    \/ NewContext \/ NewPage \/ AddInitScript \/ GotoStart \/ GotoEnd
    \/ SettleDelay \/ ExtractScriptTags \/ WaitForSelector \/ EvaluateDom
    \/ InstagramWaitForVideo \/ InstagramEvaluate \/ StartObserver
    \/ AwaitObserver \/ ClosePage \/ CloseContext

TimerStep == DeadlineTimer \/ SettleInteract \/ SettleTieBreak

FairSpec == Init /\ [][Next]_vars /\ WF_vars(PipelineStep) /\ WF_vars(TimerStep)

\* repeated scrapeVideo calls on one scraper, for the classifier
Reclassify ==
    /\ \E u \in ClassifierUrls : ScrapeVideo(u)
    /\ UNCHANGED <<handlerVars, concVars, feedVars>>

ClassifyNext == Reclassify /\ browser = "null"

ClassifySpec == Init /\ [][ClassifyNext]_vars

\* a caller of init() that keeps the error it receives
CallInit ==
    /\ Quiescent
    /\ connections < MaxConnections
    /\ \E err \in InitErrors : init(err) /\ initError' = err
    /\ UNCHANGED <<token, calls, classLog, handlerVars, concVars, feedVars, resolutionVars>>

\* init(), close() and scrapeVideo calls in any order, the resolutions being
\* those of a scraper that holds no connection
SessionNext ==
    \/ CallInit
    \/ ScraperClose
    \/ ClassifyNext

SessionSpec == Init /\ [][SessionNext]_vars

(***************************************************************************)
(* The POST handler of /api/submit: validation, init(), scrapeVideo(), the *)
(* upload, the response and close() in its finally block.                  *)
(***************************************************************************)
\* the url of a body that request.json() could not parse
Unparsed == "<no body>"

\* the urls of the requests
HandlerUrls == InputUrls \cup {"https://tiktok.com.evil.test/x"}

\* the message of each error; the texts of the errors Playwright, fetch and
\* JSON.parse raise stand for what those libraries print
ScrapeFailedPrefix == "Failed to scrape TikTok video: "

ErrorMessage(err) ==
    CASE err = "TokenNotSet" -> "BROWSERLESS_TOKEN environment variable is not set"
      [] err = "BrowserNotInitialized" -> "Browser not initialized. Call init() first."
      [] err = "UnsupportedPlatform" ->
            "Unsupported platform. Only TikTok and Instagram URLs are supported."
      [] err = "NoVideoFound" ->
            ScrapeFailedPrefix \o "No video element or network video URL found on the page"
      [] err = "ObserverTimeout" -> ScrapeFailedPrefix \o "Timeout waiting for video URL"
      [] err = "NavigationFailed" ->
            ScrapeFailedPrefix \o "page.goto: Timeout 30000ms exceeded."
      [] err = "SelectorTimeout" ->
            ScrapeFailedPrefix \o "page.waitForSelector: Timeout 10000ms exceeded."
      [] err \in {"PageFailed", "EvaluateFailed"} ->
            ScrapeFailedPrefix \o "Target page, context or browser has been closed"
      [] err = "NoVideoUrl" -> "Could not extract video URL from the provided link"
      [] err = "DownloadHttpError" ->
            "Failed to upload video: Failed to download video: 404 Not Found"
      [] err = "UploadFailed" ->
            "Failed to upload video: Failed to upload video to UploadThing"
      [] err = "FetchFailed" -> "Failed to upload video: fetch failed"
      [] err = "BadJson" -> "Unexpected end of JSON input"
      [] OTHER -> "Target page, context or browser has been closed"

\* the status the catch block derives from the message
StatusCode(errorMessage) ==
    IF Includes(errorMessage, "Invalid URL") THEN 400
    ELSE IF Includes(errorMessage, "not found") THEN 404
    ELSE IF Includes(errorMessage, "timeout") THEN 408
    ELSE IF Includes(errorMessage, "too large") THEN 413
    ELSE 500

\* variant: the platform recognised by a substring, as the uploader does
HandlerValidLoose(u) ==
    \/ Includes(u, "tiktok.com")
    \/ Includes(u, "instagram.com") \/ Includes(u, "instagr.am")

\* tiktokRegex.test(url) || instagramRegex.test(url)
HandlerValid(u) ==
    \/ MatchesPlatformRegex(u, TiktokDomains)
    \/ MatchesPlatformRegex(u, InstagramDomains)

\* request.json() and the validation of the url
HandlerReceive ==
    /\ hpc = "idle"
    /\ \E u \in HandlerUrls \cup {Unparsed} :
          /\ reqUrl' = u
          /\ IF u = Unparsed
             THEN hpc' = "finally"
                  /\ httpStatus' = StatusCode(ErrorMessage("BadJson"))
             ELSE IF ~HandlerValid(u)
             THEN hpc' = "finally" /\ httpStatus' = 400
             ELSE hpc' = "init" /\ httpStatus' = httpStatus
    /\ UNCHANGED <<upload, cancelled, token, browser, calls, classLog,
                   initError, connectAttempted, connections, concVars, feedVars,
                   resolutionVars>>

\* await scraper.init()
HandlerInit ==
    /\ hpc = "init"
    /\ \E err \in InitErrors :
          /\ init(err)
          /\ initError' = err
          /\ IF err = ""
             THEN hpc' = "scrape" /\ httpStatus' = httpStatus
             ELSE hpc' = "finally"
                  /\ httpStatus' = StatusCode(ErrorMessage(err))
    /\ UNCHANGED <<reqUrl, upload, cancelled, token, calls, classLog,
                   concVars, feedVars, resolutionVars>>

\* scraper.scrapeVideo(url) is called
HandlerScrape ==
    /\ hpc = "scrape"
    /\ ScrapeVideo(reqUrl)
    /\ hpc' = "await"
    /\ UNCHANGED <<reqUrl, httpStatus, upload, cancelled, concVars, feedVars>>

\* the await on scrapeVideo resumes: its error, or the videoUrl check
HandlerResume ==
    /\ hpc = "await"
    /\ pc = "done"
    /\ IF outcome = "error"
       THEN hpc' = "finally" /\ httpStatus' = StatusCode(ErrorMessage(error))
       ELSE IF ~TruthyStr(result.videoUrl)
       THEN hpc' = "finally"
            /\ httpStatus' = StatusCode(ErrorMessage("NoVideoUrl"))
       ELSE hpc' = "upload" /\ httpStatus' = httpStatus
    /\ UNCHANGED <<reqUrl, upload, cancelled, token, browser, calls, classLog,
                   initError, connectAttempted, connections, concVars, feedVars,
                   resolutionVars>>

\* what uploadVideoFromUrl can end with
UploadOutcomes == {"FetchFailed", "DownloadHttpError", "UploadFailed", "stored"}

\* uploadVideoFromUrl(videoUrl, originalUrl): fetches videoUrl and uploads the
\* bytes it received; the third argument of the call is not a parameter
uploadVideoFromUrl(videoUrl, originalUrl, videoBuffer, out) ==
    /\ upload' = [called |-> TRUE, fetched |-> TRUE,
                  stored |-> IF out = "stored" THEN "fetched" ELSE "none"]
    /\ httpStatus' = IF out = "stored" THEN 200
                     ELSE StatusCode(ErrorMessage(out))

HandlerUpload ==
    /\ hpc = "upload"
    /\ \E out \in UploadOutcomes :
          uploadVideoFromUrl(result.videoUrl, reqUrl, result.buffer, out)
    /\ hpc' = "finally"
    /\ UNCHANGED <<reqUrl, cancelled, token, browser, calls, classLog,
                   initError, connectAttempted, connections, concVars, feedVars,
                   resolutionVars>>

\* variant: the response returned without the finally block
HandlerFinallySkipped ==
    /\ hpc = "finally"
    /\ hpc' = "responded"
    /\ UNCHANGED <<reqUrl, httpStatus, upload, cancelled, token, browser, calls,
                   classLog, initError, connectAttempted, connections,
                   concVars, feedVars, resolutionVars>>

\* finally: scraper.close(), its errors ignored
HandlerFinally ==
    /\ hpc = "finally"
    /\ close
    /\ hpc' = "responded"
    /\ UNCHANGED <<reqUrl, httpStatus, upload, cancelled, token, calls,
                   classLog, initError, connectAttempted, concVars, feedVars,
                   resolutionVars>>

\* the caller gives up on the request; the handler does not read
\* request.signal and has no step that reacts
CallerTimeout ==
    /\ hpc \notin {"idle", "responded"}
    /\ ~cancelled
    /\ cancelled' = TRUE
    /\ UNCHANGED <<hpc, reqUrl, httpStatus, upload, token, browser, calls,
                   classLog, initError, connectAttempted, connections,
                   concVars, feedVars,
                   resolutionVars>>

\* the responses of the page while the handler awaits scrapeVideo
HandlerEmitResponse ==
    /\ Len(emitted) < MaxHandlerResponses
    /\ \E r \in Responses : EmitResponse(r)

HandlerNext ==
    \/ HandlerReceive
    \/ HandlerInit
    \/ HandlerScrape
    \/ NewContext
    \/ NewPage
    \/ AddInitScript
    \/ GotoStart
    \/ GotoEnd
    \/ SettleDelay
    \/ ExtractScriptTags
    \/ WaitForSelector
    \/ EvaluateDom
    \/ InstagramWaitForVideo
    \/ InstagramEvaluate
    \/ StartObserver
    \/ HandlerEmitResponse
    \/ DeadlineTimer
    \/ SettleInteract
    \/ SettleTieBreak
    \/ AwaitObserver
    \/ DownloadFetch
    \/ DownloadRead
    \/ ClosePage
    \/ CloseContext
    \/ HandlerResume
    \/ HandlerUpload
    \/ HandlerFinally

HandlerSpec == Init /\ [][HandlerNext]_vars

CancelNext == HandlerNext \/ CallerTimeout

CancelSpec == Init /\ [][CancelNext]_vars

(***************************************************************************)
(* The Network Observer under load: one resolution, with the page's        *)
(* responses arriving while the pipeline awaits the observer's promise, and *)
(* two candidates among them that do not settle it on arrival.             *)
(***************************************************************************)
\* a media URL served without a content-type header
MediaC == "https://cdn.test/c.webm"

ObserverResponses == Responses \cup {[url |-> MediaC, ct |-> ""]}

ObserverEmitResponse ==
    /\ pc = "awaitObs"
    /\ Len(emitted) < MaxObserverResponses
    /\ \E r \in ObserverResponses : EmitResponse(r)

ObserverNext ==
    \/ ScraperInit
    \/ ScraperClose
    \/ Resolve
    \/ NewContext
    \/ NewPage
    \/ AddInitScript
    \/ GotoStart
    \/ GotoEnd
    \/ SettleDelay
    \/ ExtractScriptTags
    \/ WaitForSelector
    \/ EvaluateDom
    \/ InstagramWaitForVideo
    \/ InstagramEvaluate
    \/ StartObserver
    \/ ObserverEmitResponse
    \/ DeadlineTimer
    \/ SettleInteract
    \/ SettleTieBreak
    \/ AwaitObserver
    \/ DownloadFetch
    \/ DownloadRead
    \/ ClosePage
    \/ CloseContext

ObserverSpec == Init /\ [][ObserverNext]_vars

(***************************************************************************)
(* Concurrent POST requests.  Each request runs the handler with a scraper *)
(* of its own; the resolution is reduced to the steps that create, use and *)
(* close its context and page.                                             *)
(***************************************************************************)
\* everything but the concurrent requests
soloVars ==
    <<token, browser, calls, classLog, initError, connectAttempted,
      connections, handlerVars, feedVars, resolutionVars>>

\* variant: one scraper at module scope, shared by every request
ScraperOfShared(r) == CHOOSE s \in Reqs : \A t \in Reqs : s <= t

\* const scraper = new VideoScraper(): the scraper request r works with
ScraperOf(r) == r

NewContextRecord(r) ==
    [owner |-> r, scraper |-> ScraperOf(r), state |-> "open", page |-> "none",
     users |-> {}, closedBy |-> {}]

\* the handler accepted the request of r and constructed its scraper
ConcReceive(r) ==
    /\ rq[r].pc = "idle"
    /\ rq' = [rq EXCEPT ![r].pc = "init"]
    /\ UNCHANGED <<contexts, soloVars>>

\* await scraper.init()
ConcInit(r) ==
    /\ rq[r].pc = "init"
    /\ \/ /\ ~TokenMissing
          /\ rq' = [rq EXCEPT ![r].pc = "scrape",
                              ![ScraperOf(r)].browser = "connected"]
       \/ rq' = [rq EXCEPT ![r].pc = "close"]
    /\ UNCHANGED <<contexts, soloVars>>

\* scrapeVideo up to browser.newContext()
ConcNewContext(r) ==
    /\ rq[r].pc = "scrape"
    /\ \/ /\ rq[ScraperOf(r)].browser = "connected"
          /\ contexts' = Append(contexts, NewContextRecord(r))
          /\ rq' = [rq EXCEPT ![r].pc = "newPage", ![r].ctx = Len(contexts) + 1]
       \/ /\ rq' = [rq EXCEPT ![r].pc = "close"]
          /\ UNCHANGED contexts
    /\ UNCHANGED soloVars

\* context.newPage()
ConcNewPage(r) ==
    /\ rq[r].pc = "newPage"
    /\ \/ /\ contexts[rq[r].ctx].state = "open"
          /\ contexts' = [contexts EXCEPT ![rq[r].ctx].page = "open"]
          /\ rq' = [rq EXCEPT ![r].pc = "work", ![r].page = rq[r].ctx]
       \/ /\ rq' = [rq EXCEPT ![r].pc = "close"]
          /\ UNCHANGED contexts
    /\ UNCHANGED soloVars

\* the try block: navigation, probes, observer and download on the page
ConcWork(r) ==
    /\ rq[r].pc = "work"
    /\ contexts' = [contexts EXCEPT ![rq[r].page].users = @ \cup {r}]
    /\ rq' = [rq EXCEPT ![r].pc = "closePage"]
    /\ UNCHANGED soloVars

\* finally: page.close()
ConcClosePage(r) ==
    /\ rq[r].pc = "closePage"
    /\ \/ /\ contexts' = [contexts EXCEPT ![rq[r].page].page = "closed"]
          /\ rq' = [rq EXCEPT ![r].pc = "closeCtx"]
       \/ /\ rq' = [rq EXCEPT ![r].pc = "close"]
          /\ UNCHANGED contexts
    /\ UNCHANGED soloVars

\* finally: context.close()
ConcCloseContext(r) ==
    /\ rq[r].pc = "closeCtx"
    /\ \/ contexts' = [contexts EXCEPT ![rq[r].ctx].state = "closed",
                                         ![rq[r].ctx].closedBy = @ \cup {r}]
       \/ UNCHANGED contexts
    /\ rq' = [rq EXCEPT ![r].pc = "close"]
    /\ UNCHANGED soloVars

\* the handler's finally: scraper.close() closes the connection of its
\* scraper, and with it every context created on that connection
ConcScraperClose(r) ==
    /\ rq[r].pc = "close"
    /\ IF rq[ScraperOf(r)].browser = "connected"
       THEN contexts' =
              [c \in 1..Len(contexts) |->
                 IF contexts[c].scraper = ScraperOf(r) /\ contexts[c].state = "open"
                 THEN [contexts[c] EXCEPT !.state = "closed",
                                          !.closedBy = @ \cup {r}]
                 ELSE contexts[c]]
       ELSE UNCHANGED contexts
    /\ rq' = [rq EXCEPT ![r].pc = "done", ![ScraperOf(r)].browser = "null"]
    /\ UNCHANGED soloVars

ConcNext ==
    \E r \in Reqs :
        \/ ConcReceive(r)
        \/ ConcInit(r)
        \/ ConcNewContext(r)
        \/ ConcNewPage(r)
        \/ ConcWork(r)
        \/ ConcClosePage(r)
        \/ ConcCloseContext(r)
        \/ ConcScraperClose(r)

ConcSpec == Init /\ [][ConcNext]_vars

(***************************************************************************)
(* The VideoFeed component: the list it loads, the index of the video      *)
(* shown, and the transitions the navigation events start.                 *)
(***************************************************************************)
nonFeedVars ==
    <<token, browser, calls, classLog, initError, connectAttempted,
      connections, handlerVars, concVars, resolutionVars>>

MathMin(a, b) == IF a <= b THEN a ELSE b

MathMax(a, b) == IF a >= b THEN a ELSE b

\* loadVideos() is called: by onMount, or by the Try Again button, which is
\* rendered while error() is set and loading() is false
LoadVideosStart ==
    /\ loadCalls < MaxLoads
    /\ loadCalls = 0 \/ (feedError /\ ~loading)
    /\ loadCalls' = loadCalls + 1
    /\ loadsInFlight' = loadsInFlight + 1
    /\ UNCHANGED <<videosLength, currentIndex, loading, feedError,
                   isTransitioning, transitionDirection, feedTimer,
                   sinceScroll, indexAtStart, nonFeedVars>>

\* a loadVideos() call settles: the valid videos of the answer are stored, or
\* the fetch, the status, the JSON or the array check failed
LoadVideosEnd ==
    /\ loadsInFlight > 0
    /\ loadsInFlight' = loadsInFlight - 1
    /\ \/ \E n \in 0..MaxVideos : videosLength' = n /\ feedError' = FALSE
       \/ videosLength' = 0 /\ feedError' = TRUE
    /\ loading' = FALSE
    /\ UNCHANGED <<currentIndex, loadCalls, isTransitioning,
                   transitionDirection, feedTimer, sinceScroll, indexAtStart,
                   nonFeedVars>>

\* a click outside a video element, on the right or the left half, and the
\* updater it passes to setCurrentIndex
handleClick ==
    /\ loadCalls > 0
    /\ \E isRightClick \in BOOLEAN :
          currentIndex' = IF isRightClick
                          THEN MathMin(currentIndex + 1, videosLength - 1)
                          ELSE MathMax(currentIndex - 1, 0)
    /\ UNCHANGED <<videosLength, loading, feedError, loadsInFlight, loadCalls,
                   isTransitioning, transitionDirection, feedTimer,
                   sinceScroll, indexAtStart, nonFeedVars>>

\* goToNext(): unless guarded, the flag, the direction and the 300 ms timer
goToNext ==
    IF isTransitioning \/ currentIndex >= videosLength - 1
    THEN UNCHANGED <<isTransitioning, transitionDirection, feedTimer, indexAtStart>>
    ELSE /\ isTransitioning' = TRUE
         /\ transitionDirection' = "down"
         /\ feedTimer' = "moveNext"
         /\ indexAtStart' = currentIndex

goToPrevious ==
    IF isTransitioning \/ currentIndex <= 0
    THEN UNCHANGED <<isTransitioning, transitionDirection, feedTimer, indexAtStart>>
    ELSE /\ isTransitioning' = TRUE
         /\ transitionDirection' = "up"
         /\ feedTimer' = "movePrevious"
         /\ indexAtStart' = currentIndex

\* a key of the two groups handleKeyDown reacts to
handleKeyDown ==
    /\ loadCalls > 0
    /\ goToNext \/ goToPrevious
    /\ UNCHANGED <<videosLength, currentIndex, loading, feedError,
                   loadsInFlight, loadCalls, sinceScroll, nonFeedVars>>

\* a wheel event that passes the 300 ms throttle
handleScroll ==
    /\ loadCalls > 0
    /\ sinceScroll = "old"
    /\ sinceScroll' = "recent"
    /\ \E deltaY \in {-1, 0, 1} :
          IF deltaY > 0 THEN goToNext
          ELSE IF deltaY < 0 THEN goToPrevious
          ELSE UNCHANGED <<isTransitioning, transitionDirection, feedTimer,
                           indexAtStart>>
    /\ UNCHANGED <<videosLength, currentIndex, loading, feedError,
                   loadsInFlight, loadCalls, nonFeedVars>>

\* 300 ms pass after the last wheel event that was let through
ScrollThrottleElapsed ==
    /\ sinceScroll = "recent"
    /\ sinceScroll' = "old"
    /\ UNCHANGED <<videosLength, currentIndex, loading, feedError,
                   loadsInFlight, loadCalls, isTransitioning,
                   transitionDirection, feedTimer, indexAtStart, nonFeedVars>>

\* the 300 ms callback of goToNext or goToPrevious
TransitionMove ==
    /\ feedTimer \in {"moveNext", "movePrevious"}
    /\ currentIndex' = IF feedTimer = "moveNext"
                       THEN MathMin(currentIndex + 1, videosLength - 1)
                       ELSE MathMax(currentIndex - 1, 0)
    /\ feedTimer' = "end"
    /\ UNCHANGED <<videosLength, loading, feedError, loadsInFlight, loadCalls,
                   isTransitioning, transitionDirection, sinceScroll,
                   indexAtStart, nonFeedVars>>

\* the 100 ms callback armed by the first one
TransitionEnd ==
    /\ feedTimer = "end"
    /\ isTransitioning' = FALSE
    /\ feedTimer' = "none"
    /\ UNCHANGED <<videosLength, currentIndex, loading, feedError,
                   loadsInFlight, loadCalls, transitionDirection, sinceScroll,
                   indexAtStart, nonFeedVars>>

FeedNext ==
    \/ LoadVideosStart
    \/ LoadVideosEnd
    \/ handleClick
    \/ handleKeyDown
    \/ handleScroll
    \/ ScrollThrottleElapsed
    \/ TransitionMove
    \/ TransitionEnd

FeedSpec == Init /\ [][FeedNext]_vars

TypeOK ==
    /\ videosLength \in 0..MaxVideos
    /\ currentIndex \in -1..MaxVideos
    /\ loadsInFlight \in 0..MaxLoads /\ loadCalls \in 0..MaxLoads
    /\ feedTimer \in {"none", "moveNext", "movePrevious", "end"}
    /\ isTransitioning <=> feedTimer # "none"
    /\ browser \in {"null", "connected"}
    /\ calls \in 0..MaxCalls
    /\ platform \in {"none", "tiktok", "instagram"}
    /\ ctx \in {"none", "open", "closed"}
    /\ page \in {"none", "open", "closed"}
    /\ outcome \in {"none", "ok", "error"}
    /\ obs.state \in {"idle", "pending", "resolved", "rejected"}
    /\ deadline \in {"idle", "armed", "cleared", "fired"}
    /\ settle \in {"idle", "armed", "running", "done"}
    /\ Len(emitted) <= MaxResponses
    /\ initError \in InitErrors
    /\ connectAttempted \in BOOLEAN
    /\ connections \in Nat
    /\ Len(navLog) <= NumGotoAttempts
    /\ Len(trail) <= 6
    /\ hpc \in {"idle", "init", "scrape", "await", "upload", "finally", "responded"}
    /\ httpStatus \in {0, 200, 400, 404, 408, 413, 500}
    /\ upload.stored \in {"none", "fetched", "buffer"}
    /\ cancelled \in BOOLEAN
    /\ Len(contexts) <= MaxRequests

(***************************************************************************)
(* Properties.                                                             *)
(***************************************************************************)
Done == pc = "done"

\* the media address the strategies settled on
ResolvedUrl == IF scriptMetadata.found THEN scriptMetadata.videoUrl ELSE metadataUrl

\* the finally block ran to its end
TornDown == fault \notin {"closePage", "closeCtx"}

\* C1: once scrapeVideo has settled, a browsing context that was opened has
\* been closed exactly once, whichever step failed or succeeded.
C1_ContextClosedExactlyOnce ==
    (Done /\ ctx # "none") => (ctx = "closed" /\ ctxCloses = 1)

\* C2: the videoUrl of a returned result is never a sentinel URL.
C2_ResultNeverSentinel ==
    (Done /\ outcome = "ok") => ~isIgnoredVideo(result.videoUrl)

\* the page had no embedded state and no selector of the probe matched
NothingInPage ==
    /\ ~scriptMetadata.found
    /\ ~videoFound
    /\ obsFor = "novideo"

\* C3: a TikTok page with no embedded state and no matching selector that emits
\* exactly one response, non-sentinel and of a video content type, between
\* the start of navigation and the observer deadline, resolves to the URL of
\* that response.
C3_SingleVideoResponseReturned ==
    ( /\ Done
      /\ fault = ""
      /\ platform = "tiktok"
      /\ NothingInPage
      /\ Len(emitted) = 1
      /\ isVideoContent(emitted[1].ct)
      /\ ~isIgnoredVideo(emitted[1].url)
      /\ emitted[1].at # "afterDeadline" )
    => (outcome = "ok" /\ result.videoUrl = emitted[1].url)

\* C4: the response listener is registered before the first page.goto starts.
C4_ListenerBeforeNavigation == navStarted => listening

\* the page has produced a media candidate: an embedded-state address, a DOM
\* source or a classified network response
CandidateSeen ==
    \/ scriptMetadata.found
    \/ metadataUrl # ""
    \/ \E i \in 1..Len(emitted) : IsCandidate(emitted[i])

C6_DeclaredTooLargeStillSucceeds ==
    dl.status = "declaredTooLarge"
    => /\ thrown = ""
       /\ retval.set /\ retval.videoUrl = ResolvedUrl /\ ~retval.hasBuffer
       /\ (Done /\ TornDown)
            => (outcome = "ok" /\ result.videoUrl = ResolvedUrl /\ ~result.hasBuffer)

C6_Witness ==
    /\ Done /\ outcome = "ok"
    /\ dl.status = "declaredTooLarge"
    /\ dl.header.value = "52428801"
    /\ result.videoUrl = MediaA

\* C7: a returned buffer never exceeds 50 MiB and is the complete stream;
\* when the running total exceeds the cap or the stream errors, no buffer is
\* returned.
C7_BufferCompleteAndCapped ==
    /\ retval.hasBuffer
         => /\ retval.buffer.size <= MaxDownloadBytes
            /\ dl.streamDone /\ dl.status = "complete"
            /\ retval.buffer.parts = dl.stream
            /\ retval.buffer.size = SumLen(dl.stream)
    /\ result.hasBuffer => (retval.hasBuffer /\ result.buffer = retval.buffer)
    /\ dl.status \in {"runningTooLarge", "streamError"}
         => (retval.set /\ ~retval.hasBuffer /\ ~result.hasBuffer)

C7_Witness ==
    /\ Done /\ outcome = "ok" /\ result.hasBuffer
    /\ result.buffer.size = MaxDownloadBytes
    /\ Len(result.buffer.parts) = 1

\* C8: every call of scrapeVideo classifies its input as exactly one of
\* TikTok, Instagram or unsupported, and a string is classified the same way
\* every time it is passed.
C8_ClassifierTotalDeterministic ==
    /\ \A u \in ClassifierUrls :
          /\ Cardinality(classLog[u]) <= 1
          /\ classLog[u] \subseteq {"tiktok", "instagram", "unsupported"}
    /\ calls > 0
         => /\ classLog[url] # {}
            /\ (platform = "tiktok") <=> (classLog[url] = {"tiktok"})
            /\ (platform = "instagram") <=> (classLog[url] = {"instagram"})
            /\ (error = "UnsupportedPlatform") <=> (classLog[url] = {"unsupported"})
            /\ (error = "UnsupportedPlatform") <=> (platform = "none")

\* the same TikTok URL was passed twice
C8_Witness ==
    /\ calls = 2
    /\ classLog[url] = {"tiktok"}
    /\ \A u \in ClassifierUrls \ {url} : classLog[u] = {}

\* C9: the observer never resolves with a sentinel URL, from the early exit
\* or from the tie-break, whatever the content type of the response.
C9_ObserverNeverSentinel ==
    obs.state = "resolved" => ~isIgnoredVideo(obs.value)

\* a sentinel of a video content type reached the listener first, and the
\* observer resolved later from the tie-break
C9_Witness ==
    /\ obs.state = "resolved" /\ settle = "done" /\ obs.value = MediaB
    /\ Len(emitted) = 2
    /\ emitted[1].at = "listening"
    /\ isIgnoredVideo(emitted[1].url) /\ isVideoContent(emitted[1].ct)

\* the embedded-state strategy yielded a non-empty, non-sentinel address
EmbeddedAddress ==
    /\ scriptMetadata.found
    /\ TruthyStr(scriptMetadata.videoUrl)
    /\ ~isIgnoredVideo(scriptMetadata.videoUrl)

\* C10: when the embedded-state strategy yields a non-empty, non-sentinel
\* address, the DOM is not consulted and the videoUrl of the result is that
\* address, whatever responses arrive and however the download ends.
C10_EmbeddedAddressIsFinal ==
    EmbeddedAddress
    => /\ ~videoFound /\ selIdx = 0 /\ obs.state = "idle"
       /\ thrown = ""
       /\ retval.set => retval.videoUrl = scriptMetadata.videoUrl
       /\ (Done /\ TornDown)
            => (outcome = "ok" /\ result.videoUrl = scriptMetadata.videoUrl)

C10_Witness ==
    /\ Done /\ outcome = "ok"
    /\ EmbeddedAddress
    /\ dl.status = "httpError"
    /\ Len(emitted) > 0
    /\ result.videoUrl = MediaB

\* the embedded-state strategy yielded a sentinel address
EmbeddedSentinel ==
    /\ scriptMetadata.found
    /\ isIgnoredVideo(scriptMetadata.videoUrl)

\* C11: when the embedded-state strategy yields a sentinel address, the
\* pipeline does not download or return it: it goes on to the DOM probe and
\* the network observer.
C11_EmbeddedSentinelFallsThrough ==
    EmbeddedSentinel
    => /\ dl.url # scriptMetadata.videoUrl
       /\ ~(retval.set /\ retval.videoUrl = scriptMetadata.videoUrl)
       /\ (Done /\ fault = "") => (videoFound \/ obs.state # "idle")

\* the in-session download failed: the evaluation, the fetch, the status,
\* the reader or the stream
DownloadFailed ==
    dl.status \in {"evalError", "fetchError", "httpError", "noReader", "streamError"}

\* C12: a failure of the in-session download never fails the resolution: the
\* error does not leave downloadVideoFromBrowser, and the resolution returns
\* the resolved videoUrl unchanged without a buffer (the finally block
\* completing).
C12_DownloadFailureNotFatal ==
    DownloadFailed
    => /\ thrown = ""
       /\ retval.set /\ retval.videoUrl = ResolvedUrl /\ ~retval.hasBuffer
       /\ (Done /\ TornDown)
            => /\ outcome = "ok"
               /\ result.videoUrl = ResolvedUrl
               /\ ~result.hasBuffer

\* the stream failed after a chunk had been read
C12_Witness ==
    /\ Done /\ outcome = "ok"
    /\ dl.status = "streamError"
    /\ Len(dl.chunks) = 1
    /\ ~result.hasBuffer
    /\ result.videoUrl = MediaA
    /\ obsFor = "dom"

\* C13: every successful resolution attempted the in-session download of its
\* media URL before its context was torn down.
C13_DownloadAlwaysAttempted ==
    (Done /\ outcome = "ok") => (dl.status # "none" /\ dl.url = result.videoUrl)

\* the resolution of request r is between newContext() and its finally block
InFlight(r) == rq[r].pc \in {"newPage", "work", "closePage", "closeCtx"}

ContextsOf(r) == {c \in 1..Len(contexts) : contexts[c].owner = r}

\* C14: with requests running concurrently, each resolution in flight has
\* exactly one context, created by itself; no context or page is used by a
\* resolution other than its owner; and until the resolution itself reaches
\* context.close(), its context is open: nothing another request does closes
\* it.
C14_ContextsNeverShared ==
    /\ \A r \in Reqs :
          InFlight(r)
          => /\ ContextsOf(r) = {rq[r].ctx}
             /\ \A r2 \in Reqs \ {r} : rq[r2].ctx # rq[r].ctx
             /\ contexts[rq[r].ctx].state = "open"
    /\ \A c \in 1..Len(contexts) :
          /\ contexts[c].users \subseteq {contexts[c].owner}
          /\ contexts[c].closedBy \subseteq {contexts[c].owner}

\* one request tears its context and connection down while another is at work
C14_Witness ==
    /\ Len(contexts) = 2
    /\ rq[1].ctx = 2 /\ rq[2].ctx = 1
    /\ rq[1].pc = "done" /\ contexts[2].closedBy = {1}
    /\ rq[2].pc = "closePage" /\ contexts[1].users = {2}
    /\ contexts[1].state = "open"

\* C15 as claimed: a returned buffer has the declared content length when
\* one was declared, and the length of the stream otherwise.
C15_BufferLengthIsDeclared ==
    result.hasBuffer
    => result.buffer.size = IF Declared(dl.header)
                            THEN parseInt(dl.header.value).n
                            ELSE SumLen(dl.stream)

\* C15 as amended: a returned buffer has the length of the stream that was
\* read, whether or not a content length was declared; a declared length
\* only has to be within the cap.
C15_BufferLengthIsStreamLength ==
    result.hasBuffer
    => /\ result.buffer.size = SumLen(dl.stream)
       /\ dl.streamDone
       /\ ~DeclaredTooLarge(dl.header)

\* a stream shorter than the declared length
C15_Witness ==
    /\ Done /\ outcome = "ok" /\ result.hasBuffer
    /\ Declared(dl.header)
    /\ parseInt(dl.header.value).n = MaxDownloadBytes
    /\ result.buffer.size = 1

\* the third page.goto of a TikTok resolution failed
AllNavigationFailed ==
    /\ platform = "tiktok"
    /\ navAttempt = NumGotoAttempts
    /\ fault = "navigation"

\* C16: when all three navigation attempts fail, no extraction strategy and
\* no download is started, and the resolution settles with the navigation
\* error and its context closed.
C16_NavigationFailureClosesContext ==
    AllNavigationFailed
    => /\ ~scriptMetadata.found /\ selIdx = 0 /\ ~videoFound
       /\ obs.state = "idle" /\ ~listening
       /\ dl = NoDownload
       /\ Done => /\ outcome = "error"
                   /\ error = "NavigationFailed"
                   /\ ctx = "closed" /\ ctxCloses = 1

\* C17: without a token init() throws before any connection attempt and the
\* scraper stays without a browser; a scrapeVideo that follows fails and
\* opens no context and no page.
C17_InitWithoutTokenFails ==
    /\ ~token => (~connectAttempted /\ browser = "null"
                  /\ initError \in {"", "TokenNotSet"})
    /\ initError = "TokenNotSet"
         => /\ ~token /\ ~connectAttempted /\ browser = "null"
            /\ ctx = "none" /\ page = "none" /\ ctxCloses = 0
            /\ calls > 0 => (Done /\ outcome = "error"
                             /\ error \in {"BrowserNotInitialized",
                                            "UnsupportedPlatform"})

\* init() failed for want of a token and a TikTok URL was then passed
C17_Witness ==
    /\ initError = "TokenNotSet"
    /\ calls = 1 /\ platform = "tiktok"
    /\ Done /\ error = "BrowserNotInitialized"
    /\ ctx = "none"

\* C18: once the caller has given up on a request, its browsing context is
\* torn down at once: no context or page of it is open, no observer is
\* subscribed and no download is in flight.
C18_CancelTearsDown ==
    cancelled
    => /\ ctx # "open" /\ page # "open"
       /\ ~(listening /\ obs.state = "pending")
       /\ pc \notin {"download", "dlRead"}

\* the url of the request matches neither platform pattern
UrlRejected ==
    /\ hpc # "idle"
    /\ reqUrl # Unparsed
    /\ ~MatchesPlatformRegex(reqUrl, TiktokDomains)
    /\ ~MatchesPlatformRegex(reqUrl, InstagramDomains)

\* C19: for a url that matches neither platform pattern the handler answers
\* 400 and calls neither init() nor scrapeVideo() nor the upload.
C19_InvalidUrlRejectedEarly ==
    UrlRejected
    => /\ httpStatus = 400
       /\ initError = "" /\ ~connectAttempted /\ browser = "null"
       /\ calls = 0 /\ pc = "idle" /\ ctx = "none"
       /\ upload = NoUpload

C19_Witness ==
    /\ hpc = "responded"
    /\ reqUrl = "https://tiktok.com.evil.test/x"
    /\ httpStatus = 400

\* C20: the handler fetches videoUrl from outside only when the result has
\* no videoBuffer; with a videoBuffer, the bytes it stores are that buffer.
C20_BufferUploadedWithoutFetch ==
    /\ upload.fetched => ~result.hasBuffer
    /\ (upload.stored # "none" /\ result.hasBuffer) => upload.stored = "buffer"

\* the elements of a sequence
Range(s) == {s[i] : i \in 1..Len(s)}

\* s is an initial segment of t
IsPrefix(s, t) == Len(s) <= Len(t) /\ \A i \in 1..Len(s) : s[i] = t[i]

\* the wait conditions of the page.goto calls issued so far
WaitSequence == [i \in 1..Len(navLog) |-> navLog[i].waitUntil]

\* C21: a TikTok resolution navigates with networkidle, then domcontentloaded,
\* then load; an attempt starts only after every earlier one failed, there are
\* at most three, and none follows a successful one.
C21_TikTokNavigationOrder ==
    platform = "tiktok"
    => /\ Len(navLog) <= NumGotoAttempts
       /\ IsPrefix(WaitSequence, WaitConditions)
       /\ \A i \in 1..(Len(navLog) - 1) : navLog[i].outcome = "failed"
       /\ "navigated" \in Range(trail)
            => navLog[Len(navLog)].outcome = "ok"

C21_Witness ==
    /\ platform = "tiktok"
    /\ Done /\ outcome = "ok"
    /\ navLog = <<[waitUntil |-> "networkidle", outcome |-> "failed"],
                  [waitUntil |-> "domcontentloaded", outcome |-> "failed"],
                  [waitUntil |-> "load", outcome |-> "ok"]>>

\* C22: an Instagram resolution whose networkidle navigation fails makes a
\* domcontentloaded and a load attempt before it fails.
C22_InstagramNavigationCascade ==
    (platform = "instagram" /\ thrown = "NavigationFailed")
    => WaitSequence = WaitConditions

\* C23: a throwing addInitScript does not fail the resolution.
C23_InitScriptFailureNotFatal ==
    fault = "initScript" => ~(Done /\ outcome = "error")

\* the stages of a resolution in priority order
StageOrder == <<"navigated", "settled", "embedded", "dom", "observer", "download">>

Rank(stage) == CHOOSE i \in 1..Len(StageOrder) : StageOrder[i] = stage

\* C24: the strategies run in sequence and in priority order: the embedded
\* state is parsed only after navigation and the settle delay, the DOM probe
\* only after the embedded state gave no result, and the observer is awaited
\* only after the DOM probe gave no usable address.
C24_StrategiesInPriorityOrder ==
    /\ \A i, j \in 1..Len(trail) : i < j => Rank(trail[i]) < Rank(trail[j])
    /\ "embedded" \in Range(trail)
         => SubSeq(trail, 1, 3) = <<"navigated", "settled", "embedded">>
    /\ "dom" \in Range(trail)
         => /\ trail[1] = "navigated"
            /\ platform = "tiktok"
                 => "embedded" \in Range(trail) /\ ~scriptMetadata.found
    /\ "observer" \in Range(trail)
         => /\ "dom" \in Range(trail)
            /\ obsFor = "novideo" => ~videoFound
            /\ obsFor \in {"dom", "ig"} => videoFound
            /\ pc = "awaitObs" => metadataUrl = ""

C24_Witness ==
    /\ Done /\ outcome = "ok"
    /\ trail = StageOrder

\* strategy 1 or 2 located its payload or element without a media address
AddressMissing ==
    \/ scriptMetadata.found /\ ~TruthyStr(scriptMetadata.videoUrl)
    \/ obsFor \in {"dom", "ig"}

\* C25: when strategy 1 or 2 located its payload or element without a media
\* address, a resolution that succeeds has the observer's candidate as its
\* videoUrl, never an empty or missing one, and a resolution does not fail
\* while the observer has a candidate.
C25_ObserverSubstitutesMissingAddress ==
    (Done /\ TornDown /\ AddressMissing)
    => /\ outcome = "ok"
            => /\ TruthyStr(result.videoUrl)
               /\ obs.state = "resolved" /\ result.videoUrl = obs.value
       /\ outcome = "error" => foundUrls = <<>>

EndsWith(s, suf) ==
    /\ Len(suf) <= Len(s)
    /\ SubSeq(s, Len(s) - Len(suf) + 1, Len(s)) = suf

\* the first URL of a sequence that ends in .mp4, else the first URL
RECURSIVE FirstEndingInMp4(_)
FirstEndingInMp4(urls) ==
    IF urls = <<>> THEN ""
    ELSE IF EndsWith(Head(urls), ".mp4") THEN Head(urls)
    ELSE FirstEndingInMp4(Tail(urls))

PickedByPolicy(urls) ==
    IF FirstEndingInMp4(urls) # "" THEN FirstEndingInMp4(urls) ELSE Head(urls)

\* the settle callback settles the observer's promise
TieBreakSettles ==
    /\ settle = "running" /\ settle' = "done"
    /\ obs.state = "pending" /\ obs'.state = "resolved"

\* C26: when the settle callback picks the observer's result from the
\* accumulated candidates, the result is the first candidate in arrival order
\* whose URL ends in .mp4 if there is one, else the first candidate.
C26_TieBreakPicksFirst ==
    [][TieBreakSettles => obs'.value = PickedByPolicy(foundUrls)]_vars

C26_Witness ==
    /\ settle = "done"
    /\ foundUrls = <<MediaC, MediaB>>
    /\ obs = [state |-> "resolved", value |-> MediaC]

\* C27: the first classified non-sentinel response whose URL contains .mp4
\* settles the observer, and nothing after it changes the result or turns it
\* into a failure (a response after the deadline finds the promise rejected).
C27_FirstMp4CandidateIsResult ==
    (FindMp4(foundUrls) # "" /\ obs.state # "rejected")
    => obs = [state |-> "resolved", value |-> FindMp4(foundUrls)]

\* a non-sentinel media-like response reached the listener before the deadline
AccumulatedBeforeDeadline ==
    \E i \in 1..Len(emitted) :
        emitted[i].at = "listening" /\ IsCandidate(emitted[i])

\* C28: the observer fails with its timeout only when no candidate was
\* accumulated before the deadline.
C28_TimeoutOnlyWhenNothingAccumulated ==
    obs.state = "rejected" => ~AccumulatedBeforeDeadline

\* C29: when the observer times out, scrapeVideo fails with the no-video-found
\* error on every path; the observer's own timeout error does not reach the
\* caller.
C29_ObserverTimeoutAbsorbed ==
    (Done /\ TornDown /\ obs.state = "rejected")
    => outcome = "error" /\ error = "NoVideoFound"

\* C30: init() on a scraper that holds a live connection reuses it: a scraper
\* never has more than one open engine connection, and none once closed.
C30_InitReusesConnection ==
    /\ connections <= 1
    /\ browser = "null" => connections = 0

\* the embedded-state strategy ran and came back without a media address
EmbeddedWithoutAddress ==
    "embedded" \in Range(trail) /\ ~TruthyStr(scriptMetadata.videoUrl)

\* C31: an embedded-state strategy that finds no address (no marker, payload
\* not parsable, no address under the known fields, evaluation thrown) yields
\* no candidate and the pipeline goes on to the DOM probe.
C31_EmbeddedFailureFallsThrough ==
    EmbeddedWithoutAddress
    => /\ ~scriptMetadata.found
       /\ pc = "selector" \/ "dom" \in Range(trail)

\* the selector loop takes a step: one waitForSelector settles
SelectorStep == pc = "selector" /\ (pc' # pc \/ selIdx' # selIdx)

\* C32: the selectors are tried in the listed order, one at a time; a miss
\* moves on to the next selector and is no error of the resolution; after the
\* first selector that resolves no further selector is tried.
C32_SelectorsInOrder ==
    [][SelectorStep
       => /\ thrown' = thrown /\ outcome' = outcome /\ error' = error
          /\ \/ videoFound' /\ pc' = "domEval"
             \/ /\ ~videoFound' /\ selIdx < NumSelectors
                /\ pc' = "selector" /\ selIdx' = selIdx + 1
             \/ /\ ~videoFound' /\ selIdx = NumSelectors
                /\ pc' = "observe"]_vars

C32_Witness ==
    /\ pc = "selector"
    /\ selIdx = NumSelectors
    /\ ~videoFound

\* C33: a returned videoBuffer is the concatenation of the chunks in the order
\* they were read: none dropped, duplicated or reordered, and its length is
\* the sum of the chunk lengths.
C33_BufferIsChunksInOrder ==
    result.hasBuffer
    => /\ Len(result.buffer.parts) = Len(dl.stream)
       /\ \A i \in 1..Len(dl.stream) :
            /\ result.buffer.parts[i].id = i
            /\ result.buffer.parts[i].len = dl.stream[i].len
       /\ result.buffer.size = SumLen(result.buffer.parts)

C33_Witness ==
    /\ Done /\ outcome = "ok" /\ result.hasBuffer
    /\ Len(dl.stream) = MaxChunks
    /\ Len(result.buffer.parts) = MaxChunks

\* scrapeVideo is called with a supported URL on a scraper without connection
CalledWithoutConnection ==
    /\ calls' = calls + 1
    /\ browser = "null"
    /\ Classify(url') # "unsupported"

\* C34: scrapeVideo on a supported URL, called on a scraper that holds no
\* engine connection, fails with the browser-not-initialized error and creates
\* no browsing context and no page.
C34_NoConnectionNoContext ==
    [][CalledWithoutConnection
       => /\ pc' = "done" /\ outcome' = "error"
          /\ error' = "BrowserNotInitialized"
          /\ ctx' = "none" /\ page' = "none"]_vars

\* a scrapeVideo call after init() and close()
C34_Witness ==
    /\ Done /\ error = "BrowserNotInitialized"
    /\ platform = "instagram"
    /\ connectAttempted /\ initError = ""
    /\ browser = "null" /\ connections = 0
    /\ ctx = "none"

\* the handler's scraper drops its connection
ConnectionReleased == browser = "connected" /\ browser' = "null"

C36_SuccessHasUrlAndPlatform ==
    (Done /\ outcome = "ok")
    => /\ TruthyStr(result.videoUrl)
       /\ result.platform = Classify(url)

\* C37: the handler's validation and the classifier of scrapeVideo accept the
\* same URLs: scrapeVideo answers unsupported-platform exactly for the URLs
\* the handler's validation rejects.
C37_ValidationMatchesClassifier ==
    calls > 0
    => /\ HandlerValid(url) <=> error # "UnsupportedPlatform"
       /\ HandlerValid(url) <=> platform # "none"

\* a URL with white space after the host, rejected by both
C37_Witness ==
    /\ calls > 0
    /\ url = "https://tiktok.com/a b"
    /\ ~HandlerValid(url)
    /\ error = "UnsupportedPlatform"

\* C38: in VideoFeed currentIndex stays within 0 .. max(0, videos.length - 1).
C38_CurrentIndexInRange ==
    /\ currentIndex >= 0
    /\ currentIndex <= MathMax(0, videosLength - 1)

\* C39: while a transition is in progress currentIndex changes by at most one
\* step in total, whatever navigation events arrive during it.
C39_OneStepPerTransition ==
    isTransitioning
    => /\ currentIndex - indexAtStart <= 1
       /\ indexAtStart - currentIndex <= 1

====
